---- MODULE Spec2Model ----
(***************************************************************************)
(* Polymarket screener: the whale watcher's incremental activity tracker   *)
(* (checkTraderActivity / runOnce / loadState / saveState) in its two      *)
(* builds, the trader aggregation (dedupe + filter of leaderboards), the   *)
(* edge score and the ranking of detectEdgeTraders, the copy-trading       *)
(* signals and their store, the followed-trader list, the three            *)
(* updateWatchlist, and the daemon loop with the health server.            *)
(*                                                                         *)
(*   variant = "server"   src/unnamed/part_003   (whale server, Cloud Run) *)
(*   variant = "watcher"  src/src/whale-watcher.js (CLI daemon)            *)
(*                                                                         *)
(* Time.  JavaScript times are epoch milliseconds around 10^12, which do   *)
(* not fit TLC's integers.  Every time value of the model is counted in    *)
(* units of 10^9: the threshold 10000000000 of the source is 10 here, a    *)
(* raw timestamp 2 stands for 2*10^9 (a seconds value), 1500 for 1.5*10^12 *)
(* (a milliseconds value).  Comparison, max and the multiplication by 1000 *)
(* commute with this scaling, so the code's arithmetic is kept exactly.    *)
(***************************************************************************)
EXTENDS Integers, Sequences, FiniteSets, TLC

VARIABLES
  variant,       \* which build runs: "server" or "watcher"
  now,           \* Date.now()
  stateFile,     \* data/whale-state.json: [exists, content]
  activityFile,  \* data/whale-activity.json: the persisted alert log
  state,         \* runOnce's local `state`
  allActivity,   \* runOnce's local `allActivity`
  pc,            \* position of the daemon: "idle", "loop", "sleeping"
  idx,           \* position of runOnce's for-loop in state.watchlist
  cycles,        \* number of runOnce calls started
  lastCall,      \* locals of the latest checkTraderActivity call
  proc,          \* the daemon process: runOnce calls in flight, errors caught,
                 \* last HTTP request served, and what was polled and alerted
  agg,           \* one run of a trader aggregation: [input, impl, out, done]
  score,         \* one scoring of a trader: [trader, closed, impl, out, done]
  sig,           \* one signal aggregation: [following, existing, impl, out, done]
  hist,          \* runs of the signal generator and of the watcher over time
  follow,        \* data/following.json and the last add / remove command
  rank,          \* one run of the edge-trader ranking
  wlist          \* one call of updateWatchlist: [edge, board, impl, out, done]

daemonVars == <<variant, now, stateFile, activityFile, state, allActivity, pc,
                idx, cycles, lastCall, proc>>

pureVars == <<agg, score, sig, hist, follow, rank, wlist>>

vars == <<daemonVars, pureVars>>

-----------------------------------------------------------------------------
(* Bounds *)

MaxPage   == 1   \* records in one activity page fetched by the daemon
MaxCallPage == 2 \* records in the page of a single checked call (source: limit 10)
MaxWatch  == 2   \* entries of the watchlist (source: watchCount 50)
MaxCycles == 2   \* polling cycles explored
MaxTicks  == 2   \* poll intervals the clock advances
MaxBoard  == 3   \* records of the merged leaderboards (source: 200 to 400)
MaxClosed == 2   \* records of an arbitrary closed-position list (source: limit 50)
MaxRun    == 21  \* gains or losses in a longer closed-position history
MaxPositions == 3 \* open positions gathered in one run (source: limit 50 each)
MaxRuns   == 3   \* runs of the signal generator and of the watcher over time
MaxFollow == 3   \* entries of following.json beyond which nothing is added
ActivityCap == 2 \* entries saveActivity keeps: activity.slice(0, 1000) in the
                 \* source, scaled down so that the runs explored reach the trim
SignalCap == 2   \* entries saveSignals keeps: signals.slice(0, 500) in the
                 \* source, scaled down in the same way
ClockStart == 1200   \* Date.now() when the process starts
PollTick   == 400    \* clock advance over one poll interval

Wallets == {"w1", "w2"}

-----------------------------------------------------------------------------
(* JavaScript values that are not ordinary numbers *)

NaN       == -1   \* result of new Date(<unparseable>).getTime(), Math.max(.., NaN)
Undefined == -2   \* a missing property
Null      == -3   \* JSON null

\* a || b
Falsy(x) == x \in {0, NaN, Undefined, Null}
Or(a, b) == IF Falsy(a) THEN b ELSE a

\* a <= b on numbers: false as soon as one side is NaN
JsLE(a, b) == a # NaN /\ b # NaN /\ a <= b
\* a < b
JsLT(a, b) == a # NaN /\ b # NaN /\ a < b

Abs(x) == IF x < 0 THEN 0 - x ELSE x

Max2(a, b) == IF a = NaN \/ b = NaN THEN NaN ELSE IF a >= b THEN a ELSE b

\* Math.max(...xs) of a non-empty list: NaN if any element is NaN
RECURSIVE MathMax(_)
MathMax(xs) ==
  IF Len(xs) = 1 THEN xs[1] ELSE Max2(xs[1], MathMax(Tail(xs)))

RECURSIVE Reverse(_)
Reverse(s) == IF s = <<>> THEN <<>> ELSE Append(Reverse(Tail(s)), Head(s))

SubSeqTo(s, n) == IF Len(s) <= n THEN s ELSE SubSeq(s, 1, n)

-----------------------------------------------------------------------------
(* Program constants *)

minTradeSize     == 10000   \* CONFIG.minTradeSize
SecondsThreshold == 10      \* 10000000000, in units of 10^9

-----------------------------------------------------------------------------
(* Activity records as the data API returns them *)

\* trade.timestamp: a JSON number, or a string / missing value.  For a string
\* `v` is what Date.parse makes of it (a time, or NaN when it does not parse).
RawTimestamps ==
  { [type |-> "number", v |-> 1],      \* seconds
    [type |-> "number", v |-> 2],      \* seconds
    [type |-> "number", v |-> 1500],   \* milliseconds
    [type |-> "string", v |-> NaN] }   \* unparseable

\* (usdcSize, size) pairs: sizes 50, 20000 and exactly minTradeSize
SizeFields ==
  { <<Undefined, 50>>, <<0 - 20000, 50>>, <<minTradeSize, Undefined>> }

RecordsOf(timestamps, sizes) ==
  { [timestamp |-> ts, usdcSize |-> sz[1], size |-> sz[2]] :
      ts \in timestamps, sz \in sizes }

\* the records a single checked call is fed
ActivityRecords == RecordsOf(RawTimestamps, SizeFields)

\* the records the daemon's feed is made of
DaemonRecords ==
  RecordsOf({ ts \in RawTimestamps : ts.v # 2 },
            { sz \in SizeFields : sz[1] # minTradeSize })

RECURSIVE SeqsOfLen(_, _)
SeqsOfLen(S, n) ==
  IF n = 0 THEN { <<>> }
  ELSE { Append(p, x) : p \in SeqsOfLen(S, n - 1), x \in S }

NoRepeat(p) == \A a, b \in 1..Len(p) : a # b => p[a] # p[b]

\* pages of distinct records, at most n long
PagesOf(records, n) ==
  { p \in UNION { SeqsOfLen(records, k) : k \in 0..n } : NoRepeat(p) }

\* what `await fetchActivity(wallet, {limit: 10})` can do: throw (network error
\* or !res.ok), or resolve to the parsed JSON body: null, a non-array object
\* (an error body), or an array of records
FetchResultsOf(pages) ==
  { [kind |-> "throws", items |-> <<>>],
    [kind |-> "null",   items |-> <<>>],
    [kind |-> "object", items |-> <<>>] }
  \cup { [kind |-> "array", items |-> p] : p \in pages }

FetchResults == FetchResultsOf(PagesOf(DaemonRecords, MaxPage))

CallFetchResults == FetchResultsOf(PagesOf(ActivityRecords, MaxCallPage))

-----------------------------------------------------------------------------
(* checkTraderActivity *)

\* new Date(ts).getTime(): a number is its own time value, a string its parse
DateGetTime(ts) == ts.v

\* the trade time the build compares and maximises
tradeTime(v, ts) ==
  IF v = "server"
    THEN IF ts.type = "number" /\ ts.v < SecondsThreshold
           THEN ts.v * 1000
           ELSE DateGetTime(ts)
    ELSE DateGetTime(ts)

\* Math.abs(trade.usdcSize || trade.size || 0)
tradeSize(trade) == Abs(Or(Or(trade.usdcSize, trade.size), 0))

\* the local `lastSeen` of checkTraderActivity
lastSeenOf(v, st, wallet, clock) ==
  IF v = "server"
    THEN Or(Or(st.lastSeen[wallet], st.initialized), clock)
    ELSE Or(st.lastSeen[wallet], 0)

\* (mutation of skipOld: `<` for `<=`)
skipOldStrict(v, trade, lastSeen) ==
  JsLT(tradeTime(v, trade.timestamp), lastSeen)

\* `if (tradeTime <= lastSeen) continue;`
skipOld(v, trade, lastSeen) == JsLE(tradeTime(v, trade.timestamp), lastSeen)

\* `if (size < CONFIG.minTradeSize) continue;`
skipSmall(trade) == tradeSize(trade) < minTradeSize

\* the object pushed to newTrades (wallet, size, timestamp; the other fields
\* are copied from the trade and the trader without being read)
newTradeOf(wallet, trade) ==
  [wallet |-> wallet, size |-> tradeSize(trade), timestamp |-> trade.timestamp]

RECURSIVE collectNewTrades(_, _, _, _)
collectNewTrades(v, wallet, activity, lastSeen) ==
  IF activity = <<>> THEN <<>>
  ELSE LET trade == Head(activity)
           rest  == collectNewTrades(v, wallet, Tail(activity), lastSeen)
       IN IF skipOld(v, trade, lastSeen) \/ skipSmall(trade)
            THEN rest
            ELSE <<newTradeOf(wallet, trade)>> \o rest

\* Math.max(...activity.map(t => <trade time>))
latestTime(v, activity) ==
  MathMax([k \in 1..Len(activity) |-> tradeTime(v, activity[k].timestamp)])

\* (mutation of checkTraderActivity: a fetch that fails or is empty marks the
\* wallet as seen up to now)
checkTraderActivityMarksSeen(v, st, wallet, fetch, clock) ==
  IF fetch.kind # "array" \/ Len(fetch.items) = 0
    THEN [newTrades |-> <<>>, state |-> [st EXCEPT !.lastSeen[wallet] = clock]]
  ELSE
    LET lastSeen == lastSeenOf(v, st, wallet, clock)
    IN [ newTrades |-> collectNewTrades(v, wallet, fetch.items, lastSeen),
         state |-> [st EXCEPT !.lastSeen[wallet] = latestTime(v, fetch.items)] ]

\* the whole function: [newTrades, state]
checkTraderActivity(v, st, wallet, fetch, clock) ==
  IF fetch.kind = "throws" THEN [newTrades |-> <<>>, state |-> st]
  ELSE IF fetch.kind = "null" THEN [newTrades |-> <<>>, state |-> st]
  ELSE IF fetch.kind = "array" /\ Len(fetch.items) = 0
    THEN [newTrades |-> <<>>, state |-> st]
  ELSE IF fetch.kind = "object"
    \* for..of over a non-iterable throws; the catch returns []
    THEN [newTrades |-> <<>>, state |-> st]
  ELSE
    LET lastSeen == lastSeenOf(v, st, wallet, clock)
    IN [ newTrades |-> collectNewTrades(v, wallet, fetch.items, lastSeen),
         state |-> [st EXCEPT !.lastSeen[wallet] = latestTime(v, fetch.items)] ]

-----------------------------------------------------------------------------
(* State file *)

NoLastSeen == [w \in Wallets |-> Undefined]

\* loadState when the file does not exist
freshState(v, clock) ==
  [ lastSeen    |-> NoLastSeen,
    watchlist   |-> <<>>,
    initialized |-> IF v = "server" THEN clock ELSE Undefined ]

\* JSON.parse(JSON.stringify(state)): NaN is written as null
jsonRoundTrip(st) ==
  [st EXCEPT !.lastSeen =
     [w \in Wallets |-> IF st.lastSeen[w] = NaN THEN Null ELSE st.lastSeen[w]]]

loadState(v, file, clock) ==
  IF file.exists THEN file.content ELSE freshState(v, clock)

saveState(st) == [exists |-> TRUE, content |-> jsonRoundTrip(st)]

\* saveActivity: activity.slice(0, 1000)
saveActivity(activity) == SubSeqTo(activity, ActivityCap)

-----------------------------------------------------------------------------
(* updateWatchlist *)

\* The watchlists updateWatchlist can build from the leaderboards it fetches,
\* by wallet (the tracker reads no other field of an entry).  The server keys
\* a Map by wallet, so its wallets are distinct; the watcher takes the curated
\* edge-watchlist file as it is and filters only the leaderboard through a
\* Set, so a wallet the file lists twice is on its watchlist twice.  The
\* order is the leaderboards' (server: sorted by efficiency), which the
\* service decides.
WatchlistsOf(v) ==
  { wl \in UNION { SeqsOfLen(Wallets, n) : n \in 0..MaxWatch } :
      v = "server" => NoRepeat(wl) }

updateWatchlist(st, wl) == [st EXCEPT !.watchlist = wl]

-----------------------------------------------------------------------------
(* Trader aggregation: the leaderboards merged into candidates *)

minVolume          == 50000   \* detectEdgeTraders(minVolume = 50000, ..)
copyMinVolume      == 50000   \* copy-candidates handler: (t.vol || 0) > 50000
watchlistMinVolume == 10000   \* whale server updateWatchlist: (t.vol || 0) > 10000
edgeApiMinVolume   == 50000   \* edge-traders handler: (t.vol || 0) > 50000

\* leaderboard records: wallet, pnl, vol (pnl and vol may be missing)
TraderRecords ==
  { [proxyWallet |-> w, pnl |-> p, vol |-> v] :
      w \in Wallets, p \in {Undefined, 100},
      v \in {Undefined, watchlistMinVolume, minVolume, 60000} }

\* [...allTime, ...monthly, ...weekly]: the lists one after the other, so a
\* record of an earlier list stands before every record of a later one
Boards == UNION { SeqsOfLen(TraderRecords, n) : n \in 0..MaxBoard }

\* traderMap.has(wallet), the Map kept as the list of its values in insertion
\* order
mapHas(values, wallet) ==
  \E k \in 1..Len(values) : values[k].proxyWallet = wallet

\* index.js: `if (!traderMap.has(w)) traderMap.set(w, trader)` over the list
RECURSIVE dedupe(_, _)
dedupe(list, values) ==
  IF list = <<>> THEN values
  ELSE dedupe(Tail(list),
              IF mapHas(values, Head(list).proxyWallet) THEN values
              ELSE Append(values, Head(list)))

\* index.js: .filter(t => (t.vol || 0) >= minVolume && (t.pnl || 0) > 0)
passesFilter(t, minVol) == Or(t.vol, 0) >= minVol /\ Or(t.pnl, 0) > 0

\* part_000, part_003: (t.pnl || 0) > 0 && (t.vol || 0) > <minimum>
passesStrict(t, minVol) == Or(t.pnl, 0) > 0 /\ Or(t.vol, 0) > minVol

\* a filter that also turns the order of the kept records around
RECURSIVE keepReversed(_, _)
keepReversed(list, minVol) ==
  IF list = <<>> THEN <<>>
  ELSE keepReversed(Tail(list), minVol)
         \o (IF Or(Head(list).vol, 0) >= minVol /\ Or(Head(list).pnl, 0) > 0
               THEN <<Head(list)>> ELSE <<>>)

RECURSIVE keep(_, _)
keep(list, minVol) ==
  IF list = <<>> THEN <<>>
  ELSE IF passesFilter(Head(list), minVol)
    THEN <<Head(list)>> \o keep(Tail(list), minVol)
    ELSE keep(Tail(list), minVol)

RECURSIVE keepStrict(_, _)
keepStrict(list, minVol) ==
  IF list = <<>> THEN <<>>
  ELSE IF passesStrict(Head(list), minVol)
    THEN <<Head(list)>> \o keepStrict(Tail(list), minVol)
    ELSE keepStrict(Tail(list), minVol)

\* part_000, part_003: `if (!traderMap.has(w) && <filter>) traderMap.set(w, t)`
RECURSIVE dedupeFiltering(_, _, _)
dedupeFiltering(list, values, minVol) ==
  IF list = <<>> THEN values
  ELSE dedupeFiltering(Tail(list),
         IF ~ mapHas(values, Head(list).proxyWallet)
              /\ passesStrict(Head(list), minVol)
           THEN Append(values, Head(list))
           ELSE values,
         minVol)

\* the candidates of each implementation
detectEdgeTradersCandidates(list) == keep(dedupe(list, <<>>), minVolume)
copyCandidatesTraders(list)       == dedupeFiltering(list, <<>>, copyMinVolume)
updateWatchlistTraders(list)      == dedupeFiltering(list, <<>>, watchlistMinVolume)
edgeTradersApiCandidates(list)    == keepStrict(list, edgeApiMinVolume)

NoAggregation == [input |-> <<>>, impl |-> "none", out |-> <<>>, done |-> FALSE]

Aggregated(impl, out) ==
  /\ ~ agg.done
  /\ agg' = [agg EXCEPT !.impl = impl, !.out = out, !.done = TRUE]
  /\ UNCHANGED <<daemonVars, score, sig, hist, follow, rank, wlist>>

DetectEdgeTraders ==
  Aggregated("detectEdgeTraders", detectEdgeTradersCandidates(agg.input))

CopyCandidates ==
  Aggregated("copyCandidates", copyCandidatesTraders(agg.input))

UpdateWatchlistMerge ==
  Aggregated("updateWatchlist", updateWatchlistTraders(agg.input))

EdgeTradersApi ==
  Aggregated("edgeTradersApi", edgeTradersApiCandidates(agg.input))

-----------------------------------------------------------------------------
(* Edge scoring: statistics of a trader's closed positions and the score.   *)
(* JavaScript numbers are kept in fixed point: a ratio or a score is held   *)
(* in thousandths (rounded down), the weighted sum in hundred-thousandths.  *)

\* ToNumber of the operand of a comparison: undefined is NaN, null is 0
ToNumber(x) == IF x = Undefined THEN NaN ELSE IF x = Null THEN 0 ELSE x

Min2(a, b) == IF a <= b THEN a ELSE b

\* closed positions: realizedPnl missing, null, zero, a gain or a loss
RealizedPnls == {Undefined, Null, 0, 300, 0 - 100}

ClosedRecords == { [realizedPnl |-> x] : x \in RealizedPnls }

\* k records of gain `w` followed by m records of loss `l`
Run(k, w, m, l) ==
  [ n \in 1..(k + m) |-> [realizedPnl |-> IF n <= k THEN w ELSE l] ]

\* the closed-position lists scored: every short list, and longer histories
ClosedLists ==
  UNION { SeqsOfLen(ClosedRecords, n) : n \in 0..MaxClosed }
    \cup { Run(k, 300, m, 0 - 100) : k \in 0..MaxRun, m \in 0..1 }
    \cup { Run(k, 300, m, 0 - 100) : k \in 0..1, m \in 0..MaxRun }

\* leaderboard records scored: pnl signed or missing, volume missing or >= 0
ScoredTraders ==
  { [pnl |-> p, vol |-> v] :
      p \in {Undefined, 0 - 100, 50, 5000}, v \in {Undefined, 0, 100, 10000000} }

\* Math.log10(n) in thousandths, for the values volume + 1 takes
log10Milli(n) ==
  CASE n = 2        -> 301
    [] n = 101      -> 2004
    [] n = 10001    -> 4000
    [] n = 50001    -> 4698
    [] n = 60001    -> 4778
    [] n = 10000001 -> 7000

\* p => p.realizedPnl > 0   and   p => p.realizedPnl < 0   (with the replaced
\* form of the second that also takes a zero or null amount)
isWin(p)        == JsLT(0, ToNumber(p.realizedPnl))
isLossOrFlat(p) == JsLE(ToNumber(p.realizedPnl), 0)
isLoss(p)       == JsLT(ToNumber(p.realizedPnl), 0)

\* closedPositions.filter(..)
RECURSIVE winsOf(_)
winsOf(closed) ==
  IF closed = <<>> THEN <<>>
  ELSE (IF isWin(Head(closed)) THEN <<Head(closed)>> ELSE <<>>)
         \o winsOf(Tail(closed))

RECURSIVE lossesOf(_)
lossesOf(closed) ==
  IF closed = <<>> THEN <<>>
  ELSE (IF isLoss(Head(closed)) THEN <<Head(closed)>> ELSE <<>>)
         \o lossesOf(Tail(closed))

\* list.reduce((s, p) => s + p.realizedPnl, 0)
RECURSIVE sumPnl(_)
sumPnl(list) ==
  IF list = <<>> THEN 0 ELSE Head(list).realizedPnl + sumPnl(Tail(list))

\* totalLosses > 0 ? totalWins / totalLosses : totalWins > 0 ? 10 : 1
profitFactor(totalWins, totalLosses) ==
  IF totalLosses > 0 THEN (totalWins * 1000) \div totalLosses
  ELSE IF totalWins > 0 THEN 10000 ELSE 1000

\* part_000: totalLosses > 0 ? totalWins / totalLosses : 10
profitFactorCopy(totalWins, totalLosses) ==
  IF totalLosses > 0 THEN (totalWins * 1000) \div totalLosses ELSE 10000

\* the consistency score with the full mark given from 10 trades on
consistencyScoreFrom10(totalTrades) ==
  IF totalTrades > 10 THEN 100000 ELSE (totalTrades * 100000) \div 10

\* totalTrades > 20 ? 100 : (totalTrades / 20) * 100
consistencyScore(totalTrades) ==
  IF totalTrades > 20 THEN 100000 ELSE (totalTrades * 100000) \div 20

\* Math.round(x * 10) / 10 of a weighted sum held in hundred-thousandths
roundTenth(w) == ((w + 5000) \div 10000) * 10000

\* the locals of calculateEdgeScore (index.js, part_002, api/edge-traders.js)
edgeScoreLocals(trader, closed) ==
  LET pnl         == Or(trader.pnl, 0)
      volume      == Or(trader.vol, 1)
      wins        == winsOf(closed)
      losses      == lossesOf(closed)
      totalTrades == Len(wins) + Len(losses)
      totalWins   == sumPnl(wins)
      totalLosses == Abs(sumPnl(losses))
      pf          == profitFactor(totalWins, totalLosses)
      effScore    == Min2((pnl * 200000) \div volume, 100000)
      winScore    == IF totalTrades > 0
                       THEN (Len(wins) * 100000) \div totalTrades ELSE 50000
      pfScore     == Min2(pf * 20, 100000)
      conScore    == consistencyScore(totalTrades)
      sizeScore   == Min2(log10Milli(volume + 1) * 15, 100000)
  IN [ wins |-> Len(wins), losses |-> Len(losses), totalTrades |-> totalTrades,
       profitFactor |-> pf,
       efficiency |-> effScore, winRate |-> winScore, profitFactorScore |-> pfScore,
       consistency |-> conScore, size |-> sizeScore,
       weighted |-> effScore * 30 + winScore * 25 + pfScore * 20
                      + conScore * 15 + sizeScore * 10 ]

\* index.js, api/edge-traders.js: edgeScore: Math.round(edgeScore * 10) / 10
calculateEdgeScore(trader, closed) ==
  LET l == edgeScoreLocals(trader, closed)
  IN [ edgeScore |-> roundTenth(l.weighted), locals |-> l ]

\* part_002: the weighted sum is returned as it is
calculateEdgeScoreRaw(trader, closed) ==
  LET l == edgeScoreLocals(trader, closed)
  IN [ edgeScore |-> l.weighted, locals |-> l ]

\* part_000: the statistics of one trader and the candidate test
\* totalTrades >= 15 && winRate >= 0.70 && efficiency >= 0.30, where
\* efficiency = trader.pnl / (trader.vol || 1) is NaN for a missing pnl
copyCandidateStats(trader, closed) ==
  LET wins        == winsOf(closed)
      losses      == lossesOf(closed)
      totalTrades == Len(wins) + Len(losses)
      winRate     == IF totalTrades > 0
                       THEN (Len(wins) * 1000) \div totalTrades ELSE 0
      efficiency  == IF ToNumber(trader.pnl) = NaN THEN NaN
                     ELSE (trader.pnl * 1000) \div Or(trader.vol, 1)
      totalWins   == sumPnl(wins)
      totalLosses == Abs(sumPnl(losses))
  IN [ wins |-> Len(wins), losses |-> Len(losses), totalTrades |-> totalTrades,
       profitFactor |-> profitFactorCopy(totalWins, totalLosses),
       pushed |-> totalTrades >= 15 /\ winRate >= 700
                    /\ efficiency # NaN /\ efficiency >= 300 ]

\* api/top-detailed.js: wins, losses, winRate (null without trades), totalTrades
topDetailedStats(closed) ==
  LET wins   == Len(winsOf(closed))
      losses == Len(lossesOf(closed))
  IN [ wins |-> wins, losses |-> losses, totalTrades |-> wins + losses,
       winRate |-> IF wins + losses > 0
                     THEN (wins * 1000) \div (wins + losses) ELSE Null ]

NoScore ==
  [ trader |-> [pnl |-> Undefined, vol |-> Undefined], closed |-> <<>>,
    impl |-> "none", out |-> [wins |-> 0], done |-> FALSE ]

Scored(impl, out) ==
  /\ ~ score.done
  /\ score' = [score EXCEPT !.impl = impl, !.out = out, !.done = TRUE]
  /\ UNCHANGED <<daemonVars, agg, sig, hist, follow, rank, wlist>>

CalculateEdgeScore ==
  Scored("index", calculateEdgeScore(score.trader, score.closed))

ScreenerEdgeScore ==
  Scored("part_002", calculateEdgeScoreRaw(score.trader, score.closed))

EdgeTradersEdgeScore ==
  Scored("edgeTradersApi", calculateEdgeScore(score.trader, score.closed))

CopyCandidateStats ==
  Scored("copyCandidates", copyCandidateStats(score.trader, score.closed))

TopDetailed ==
  Scored("topDetailed", topDetailedStats(score.closed))

-----------------------------------------------------------------------------
(* Signal aggregation: open positions of the followed traders grouped into  *)
(* signals.  A confidence is held in tenths (0.8 is 8).                     *)

minPositionSize  == 5000   \* CONFIG.minPositionSize
apiMinSize       == 5000   \* api/signals.js: if (totalSize < 5000) continue
confidenceHigh   == 8      \* CONFIG.confidenceThresholds.high   (0.8)
confidenceMedium == 6      \* CONFIG.confidenceThresholds.medium (0.6)
confidenceLow    == 4      \* CONFIG.confidenceThresholds.low    (0.4)
DayHours         == 24     \* 24 * 60 * 60 * 1000 ms, in hours

\* the followed traders, in the order they are polled
Following == <<"w1", "w2", "w3">>

\* (conditionId, outcome) of a position; the strings may hold any character
MarketOutcomes == { <<"c1", "Yes">>, <<"c1", "Yes-No">>, <<"c1-Yes", "No">> }

\* (size, currentValue) of a position
PositionSizes ==
  { <<25000, Undefined>>, <<30000, Undefined>>, <<100, 6000>>,
    <<0 - 10, 60000>>, <<Undefined, Undefined>> }

\* the positions trader number f can hold, tagged as getTraderPositions does
PositionsOf(f) ==
  { [ conditionId |-> mo[1], outcome |-> mo[2], size |-> sz[1],
      currentValue |-> sz[2], traderWallet |-> Following[f], trader |-> f ] :
      mo \in MarketOutcomes, sz \in PositionSizes }

\* allPositions: the positions of the first trader, then of the second, ...
\* (a trader whose fetch failed contributes none)
GatheredFrom(f, n) ==
  LET all == UNION { PositionsOf(g) : g \in f..Len(Following) }
  IN { p \in SeqsOfLen(all, n) :
         \A k \in 1..(n - 1) : p[k].trader <= p[k + 1].trader }

Gathered == UNION { GatheredFrom(1, n) : n \in 0..MaxPositions }

\* signals.json: nothing, or a signal for one market aged 1 or 30 hours
ExistingSignals ==
  { <<>> } \cup
  { << [conditionId |-> "c1", outcome |-> "Yes", ageHours |-> a] >> :
      a \in {1, 30} }

\* `${pos.conditionId}-${pos.outcome}`
keyOf(pos) == pos.conditionId \o "-" \o pos.outcome

\* pos.size > 0 ? 'LONG' : 'SHORT'
sideOf(pos) == IF JsLT(0, ToNumber(pos.size)) THEN "LONG" ELSE "SHORT"

\* the grouping loop; `grouped` is kept as the list of its values in the
\* order the keys were inserted, the order Object.entries walks them
RECURSIVE groupPositions(_, _)
groupPositions(allPositions, grouped) ==
  IF allPositions = <<>> THEN grouped
  ELSE
    LET pos == Head(allPositions)
        key == keyOf(pos)
        at  == { k \in 1..Len(grouped) : grouped[k].key = key }
    IN groupPositions(Tail(allPositions),
         IF at = {}
           THEN Append(grouped,
                  [ key |-> key, conditionId |-> pos.conditionId,
                    outcome |-> pos.outcome, side |-> sideOf(pos),
                    positions |-> <<pos>> ])
           ELSE [ grouped EXCEPT ![CHOOSE k \in at : TRUE].positions =
                                    Append(@, pos) ])

\* group.positions.reduce((s, p) => s + Math.abs(p.currentValue || p.size || 0), 0)
RECURSIVE totalSizeOf(_)
totalSizeOf(positions) ==
  IF positions = <<>> THEN 0
  ELSE Abs(Or(Or(Head(positions).currentValue, Head(positions).size), 0))
         + totalSizeOf(Tail(positions))

\* new Set(group.positions.map(p => p.traderWallet)).size
traderCountOf(positions) ==
  Cardinality({ positions[k].traderWallet : k \in 1..Len(positions) })

\* group.positions.map(p => ({wallet: p.traderWallet, size: p.currentValue || p.size}))
tradersOf(positions) ==
  [ k \in 1..Len(positions) |->
      [ wallet |-> positions[k].traderWallet,
        size |-> Or(positions[k].currentValue, positions[k].size) ] ]

signalOf(group, confidence) ==
  [ key |-> group.key, conditionId |-> group.conditionId,
    outcome |-> group.outcome, side |-> group.side,
    confidence |-> confidence, totalSize |-> totalSizeOf(group.positions),
    traderCount |-> traderCountOf(group.positions),
    traders |-> tradersOf(group.positions) ]

\* a confidence table that gives the high tier from two traders on
daemonConfidenceFrom2(traderCount, totalSize) ==
  IF traderCount >= 2 THEN confidenceHigh
  ELSE IF totalSize > 50000 THEN confidenceMedium
  ELSE IF totalSize > 10000 THEN confidenceLow
  ELSE 0

\* copy-trader.js: the if / else if chain on traderCount and totalSize
daemonConfidence(traderCount, totalSize) ==
  IF traderCount >= 3 THEN confidenceHigh
  ELSE IF traderCount >= 2 \/ totalSize > 50000 THEN confidenceMedium
  ELSE IF totalSize > 10000 THEN confidenceLow
  ELSE 0

\* api/signals.js: traderCount >= 2 ? 0.8 : totalSize > 50000 ? 0.6 : 0.4
apiConfidence(traderCount, totalSize) ==
  IF traderCount >= 2 THEN 8 ELSE IF totalSize > 50000 THEN 6 ELSE 4

\* existingSignals.find(s => same conditionId, same outcome, younger than 24h)
alreadySignaled(existing, group) ==
  \E k \in 1..Len(existing) :
    /\ existing[k].conditionId = group.conditionId
    /\ existing[k].outcome = group.outcome
    /\ existing[k].ageHours < DayHours

\* copy-trader.js: the loop over Object.entries(grouped)
RECURSIVE daemonSignals(_, _)
daemonSignals(grouped, existing) ==
  IF grouped = <<>> THEN <<>>
  ELSE
    LET group      == Head(grouped)
        totalSize  == totalSizeOf(group.positions)
        confidence == daemonConfidence(traderCountOf(group.positions), totalSize)
        rest       == daemonSignals(Tail(grouped), existing)
    IN IF \/ totalSize < minPositionSize
          \/ confidence < confidenceLow
          \/ alreadySignaled(existing, group)
         THEN rest
         ELSE <<signalOf(group, confidence)>> \o rest

\* api/signals.js: the loop over Object.entries(grouped)
RECURSIVE apiSignals(_)
apiSignals(grouped) ==
  IF grouped = <<>> THEN <<>>
  ELSE
    LET group     == Head(grouped)
        totalSize == totalSizeOf(group.positions)
        rest      == apiSignals(Tail(grouped))
    IN IF totalSize < apiMinSize THEN rest
       ELSE << signalOf(group,
                 apiConfidence(traderCountOf(group.positions), totalSize)) >>
              \o rest

\* signals.sort((a, b) => b.totalSize - a.totalSize): a stable sort
RECURSIVE insertBySize(_, _)
insertBySize(s, sorted) ==
  IF sorted = <<>> THEN <<s>>
  ELSE IF Head(sorted).totalSize - s.totalSize < 0
    THEN <<s>> \o sorted
    ELSE <<Head(sorted)>> \o insertBySize(s, Tail(sorted))

RECURSIVE sortBySize(_)
sortBySize(signals) ==
  IF signals = <<>> THEN <<>>
  ELSE insertBySize(signals[Len(signals)],
                    sortBySize(SubSeq(signals, 1, Len(signals) - 1)))

\* copy-trader.js generateSignals: the new signals, in the order of the groups
generateSignals(allPositions, existing) ==
  daemonSignals(groupPositions(allPositions, <<>>), existing)

\* api/signals.js handler: the response body, signals.slice(0, 20) of the sorted
signalsHandler(allPositions) ==
  SubSeqTo(sortBySize(apiSignals(groupPositions(allPositions, <<>>))), 20)

NoSignals ==
  [ positions |-> <<>>, existing |-> <<>>, impl |-> "none", grouped |-> <<>>,
    out |-> <<>>, saved |-> <<>>, done |-> FALSE ]

\* generateSignals: returns newSignals and saves [...newSignals, ...existing]
GenerateSignals ==
  /\ ~ sig.done
  /\ LET newSignals == generateSignals(sig.positions, sig.existing)
     IN sig' = [ sig EXCEPT
                   !.impl = "generateSignals",
                   !.grouped = groupPositions(sig.positions, <<>>),
                   !.out = newSignals,
                   !.saved = SubSeqTo(
                     [ k \in 1..Len(newSignals) |->
                         [ conditionId |-> newSignals[k].conditionId,
                           outcome |-> newSignals[k].outcome, ageHours |-> 0 ] ]
                       \o sig.existing, 500),
                   !.done = TRUE ]
  /\ UNCHANGED <<daemonVars, agg, score, hist, follow, rank, wlist>>

\* api/signals.js handler: nothing is read from or written to signals.json
SignalsHandler ==
  /\ ~ sig.done
  /\ sig' = [ sig EXCEPT
                !.impl = "signalsApi",
                !.grouped = groupPositions(sig.positions, <<>>),
                !.out = signalsHandler(sig.positions),
                !.done = TRUE ]
  /\ UNCHANGED <<daemonVars, agg, score, hist, follow, rank, wlist>>

-----------------------------------------------------------------------------
(* Values of the variables of the programs that are not running *)

NoHist ==
  [ runs |-> 0, hour |-> 0, signalsFile |-> <<>>, emitted |-> <<>>,
    lastEmitted |-> <<>>, activityLog |-> <<>> ]

NoFollow ==
  [ exists |-> FALSE, content |-> <<>>, cmd |-> "none", arg |-> "",
    before |-> <<>> ]

NoRank ==
  [ input |-> <<>>, topN |-> 1, details |-> <<>>, impl |-> "none",
    scored |-> 0, out |-> <<>>, done |-> FALSE ]

NoMerge ==
  [ edge |-> [kind |-> "absent", traders |-> <<>>], board |-> <<>>,
    closed |-> <<>>, impl |-> "none", out |-> <<>>, done |-> FALSE ]

RestIdle ==
  /\ hist = NoHist
  /\ follow = NoFollow
  /\ rank = NoRank
  /\ wlist = NoMerge

\* the daemon process before runDaemon is called
NoProc ==
  [ running |-> 0, startedAt |-> 0, errors |-> 0, http |-> "none",
    firstPolled |-> [w \in Wallets |-> Undefined], alertLog |-> <<>> ]

-----------------------------------------------------------------------------
(* The daemon: runDaemon calls runOnce, then sleeps pollInterval *)

NoCall ==
  [ called |-> FALSE, wallet |-> "w1",
    fetch |-> [kind |-> "throws", items |-> <<>>],
    lastSeen |-> 0, before |-> NoLastSeen, after |-> NoLastSeen,
    firstPoll |-> FALSE, at |-> 0, newTrades |-> <<>> ]

Init ==
  /\ variant \in {"server", "watcher"}
  /\ now = ClockStart
  /\ stateFile = [exists |-> FALSE, content |-> freshState("watcher", 0)]
  /\ activityFile = <<>>
  /\ state = freshState("watcher", 0)
  /\ allActivity = <<>>
  /\ pc = "idle"
  /\ idx = 1
  /\ cycles = 0
  /\ lastCall = NoCall
  /\ proc = NoProc
  /\ agg = NoAggregation
  /\ score = NoScore
  /\ sig = NoSignals
  /\ RestIdle

\* runOnce up to its for-loop: load, and refresh the watchlist when it is empty
\* or Math.random() < 0.1 (updateWatchlist saves the state)
RunOnceKeep ==
  /\ pc = "idle"
  /\ cycles < MaxCycles
  /\ LET st == loadState(variant, stateFile, now)
     IN /\ Len(st.watchlist) # 0
        /\ state' = st
        /\ UNCHANGED stateFile
  /\ allActivity' = activityFile
  /\ pc' = "loop"
  /\ idx' = 1
  /\ cycles' = cycles + 1
  /\ proc' = [proc EXCEPT !.running = @ + 1, !.startedAt = now]
  /\ UNCHANGED <<variant, now, activityFile, lastCall, pureVars>>

RunOnceUpdate ==
  /\ pc = "idle"
  /\ cycles < MaxCycles
  /\ \E wl \in WatchlistsOf(variant) :
       LET st == updateWatchlist(loadState(variant, stateFile, now), wl)
       IN /\ state' = st
          /\ stateFile' = saveState(st)
  /\ allActivity' = activityFile
  /\ pc' = "loop"
  /\ idx' = 1
  /\ cycles' = cycles + 1
  /\ proc' = [proc EXCEPT !.running = @ + 1, !.startedAt = now]
  /\ UNCHANGED <<variant, now, activityFile, lastCall, pureVars>>

\* one iteration of `for (const trader of state.watchlist)`: the call of
\* checkTraderActivity, then unshift + sendAlert for each new trade
CheckTraderFrom(fetches) ==
  /\ pc = "loop"
  /\ idx <= Len(state.watchlist)
  /\ \E fetch \in fetches :
       LET wallet == state.watchlist[idx]
           r      == checkTraderActivity(variant, state, wallet, fetch, now)
       IN /\ state' = r.state
          /\ allActivity' = Reverse(r.newTrades) \o allActivity
          /\ lastCall' =
               [ called    |-> TRUE,
                 wallet    |-> wallet,
                 fetch     |-> fetch,
                 lastSeen  |-> lastSeenOf(variant, state, wallet, now),
                 before    |-> state.lastSeen,
                 after     |-> r.state.lastSeen,
                 firstPoll |-> state.lastSeen[wallet] = Undefined,
                 at        |-> now,
                 newTrades |-> r.newTrades ]
          /\ proc' = [ proc EXCEPT
                         !.firstPolled[wallet] = IF @ = Undefined THEN now ELSE @,
                         !.alertLog = @ \o r.newTrades ]
  /\ idx' = idx + 1
  /\ UNCHANGED <<variant, now, stateFile, activityFile, pc, cycles, pureVars>>

CheckTrader == CheckTraderFrom(FetchResults)

\* after the loop: saveState(state); saveActivity(allActivity)
RunOnceEnd ==
  /\ pc = "loop"
  /\ idx > Len(state.watchlist)
  /\ stateFile' = saveState(state)
  /\ activityFile' = saveActivity(allActivity)
  /\ pc' = "sleeping"
  /\ proc' = [proc EXCEPT !.running = @ - 1]
  /\ UNCHANGED <<variant, now, state, allActivity, idx, cycles, lastCall,
                 pureVars>>

\* a timer that fires every poll interval whether or not runOnce has returned
SleepInterval ==
  /\ pc \in {"sleeping", "loop"}
  /\ now < ClockStart + MaxTicks * PollTick
  /\ now' = now + PollTick
  /\ pc' = "idle"
  /\ UNCHANGED <<variant, stateFile, activityFile, state, allActivity, idx,
                 cycles, lastCall, proc, pureVars>>

\* setTimeout(pollInterval)
Sleep ==
  /\ pc = "sleeping"
  /\ now < ClockStart + MaxTicks * PollTick
  /\ now' = now + PollTick
  /\ pc' = "idle"
  /\ UNCHANGED <<variant, stateFile, activityFile, state, allActivity, idx,
                 cycles, lastCall, proc, pureVars>>

Next == RunOnceKeep \/ RunOnceUpdate \/ CheckTrader \/ RunOnceEnd \/ Sleep

Spec == Init /\ [][Next]_vars

-----------------------------------------------------------------------------
(* One call of checkTraderActivity on a loaded state: the state is any the  *)
(* daemon can have loaded at the start of a cycle (lastSeen entries are     *)
(* missing, null, or a time an earlier page produced), the page is rich.    *)

LoadedLastSeen(v) ==
  {Undefined, Null}
    \cup { tradeTime(v, ts) : ts \in { t \in RawTimestamps : t.v # NaN } }

CallInit ==
  /\ variant \in {"server", "watcher"}
  /\ now = ClockStart + PollTick
  /\ \E ls \in [Wallets -> LoadedLastSeen(variant)], w \in Wallets :
       state = [ lastSeen    |-> ls,
                 watchlist   |-> <<w>>,
                 initialized |-> IF variant = "server" THEN ClockStart
                                 ELSE Undefined ]
  /\ stateFile = saveState(state)
  /\ activityFile = <<>>
  /\ allActivity = <<>>
  /\ pc = "loop"
  /\ idx = 1
  /\ cycles = 1
  /\ lastCall = NoCall
  /\ proc = [NoProc EXCEPT !.running = 1, !.startedAt = now]
  /\ agg = NoAggregation
  /\ score = NoScore
  /\ sig = NoSignals
  /\ RestIdle

CheckCall == CheckTraderFrom(CallFetchResults)

CallNext == CheckCall \/ RunOnceEnd

CallSpec == CallInit /\ [][CallNext]_vars

-----------------------------------------------------------------------------
(* One aggregation of a merged leaderboard list, by each implementation *)

AggInit ==
  /\ variant = "server"
  /\ now = ClockStart
  /\ stateFile = [exists |-> FALSE, content |-> freshState("watcher", 0)]
  /\ activityFile = <<>>
  /\ state = freshState("watcher", 0)
  /\ allActivity = <<>>
  /\ pc = "idle"
  /\ idx = 1
  /\ cycles = 0
  /\ lastCall = NoCall
  /\ proc = NoProc
  /\ \E input \in Boards : agg = [NoAggregation EXCEPT !.input = input]
  /\ score = NoScore
  /\ sig = NoSignals
  /\ RestIdle

AggNext ==
  DetectEdgeTraders \/ CopyCandidates \/ UpdateWatchlistMerge \/ EdgeTradersApi

AggSpec == AggInit /\ [][AggNext]_vars

-----------------------------------------------------------------------------
(* One scoring of a trader, by each implementation *)

\* the daemon has not started and no leaderboard is being merged
DaemonIdle ==
  /\ variant = "server"
  /\ now = ClockStart
  /\ stateFile = [exists |-> FALSE, content |-> freshState("watcher", 0)]
  /\ activityFile = <<>>
  /\ state = freshState("watcher", 0)
  /\ allActivity = <<>>
  /\ pc = "idle"
  /\ idx = 1
  /\ cycles = 0
  /\ lastCall = NoCall
  /\ proc = NoProc
  /\ agg = NoAggregation

ScoreInit ==
  /\ DaemonIdle
  /\ \E trader \in ScoredTraders, closed \in ClosedLists :
       score = [NoScore EXCEPT !.trader = trader, !.closed = closed]
  /\ sig = NoSignals
  /\ RestIdle

ScoreNext ==
  \/ CalculateEdgeScore
  \/ ScreenerEdgeScore
  \/ EdgeTradersEdgeScore
  \/ CopyCandidateStats
  \/ TopDetailed

ScoreSpec == ScoreInit /\ [][ScoreNext]_vars

-----------------------------------------------------------------------------
(* One signal aggregation, by the daemon generator and by the endpoint *)

SignalInit ==
  /\ DaemonIdle
  /\ score = NoScore
  /\ RestIdle
  /\ \E positions \in Gathered, existing \in ExistingSignals :
       sig = [NoSignals EXCEPT !.positions = positions, !.existing = existing]

SignalNext == GenerateSignals \/ SignalsHandler

SignalSpec == SignalInit /\ [][SignalNext]_vars

-----------------------------------------------------------------------------
(* Runs over time: the signal generator run again and again on its own      *)
(* signals.json, and the watcher's runs on whale-activity.json.  The two    *)
(* programs share no file.  Time is counted in hours here.                  *)

\* saveSignals: signals.slice(0, 500) without the slice
saveSignalsUntrimmed(signals) == signals

\* saveSignals: signals.slice(0, 500) is written
saveSignals(signals) == SubSeqTo(signals, SignalCap)

\* the markets that show up in the runs
RunMarkets == { <<"c1", "Yes">>, <<"c2", "Yes">>, <<"c3", "No">> }

\* a position of one followed trader large enough for a signal on its own
RunPosition(mo) ==
  [ conditionId |-> mo[1], outcome |-> mo[2], size |-> 100,
    currentValue |-> 60000, traderWallet |-> Following[1], trader |-> 1 ]

\* allPositions of a run: positions on up to two different markets (their
\* order within a run makes no difference to what is stored; one is taken)
RunPositions ==
  { <<>> } \cup { <<RunPosition(a)>> : a \in RunMarkets }
    \cup { <<RunPosition(ab[1]), RunPosition(ab[2])>> :
             ab \in { <<<<"c1", "Yes">>, <<"c2", "Yes">>>>,
                      <<<<"c2", "Yes">>, <<"c3", "No">>>>,
                      <<<<"c3", "No">>, <<"c1", "Yes">>>> } }

\* hours that pass between two runs
RunGaps == {1, DayHours}

\* loadSignals at `hour`: each stored signal with its age
\* Date.now() - new Date(s.timestamp).getTime()
loadSignals(file, hour) ==
  [ k \in 1..Len(file) |->
      [ conditionId |-> file[k].conditionId, outcome |-> file[k].outcome,
        ageHours |-> hour - file[k].at ] ]

\* the signals of a run as they are stored: timestamp: new Date().toISOString()
stamped(newSignals, hour) ==
  [ k \in 1..Len(newSignals) |->
      [ conditionId |-> newSignals[k].conditionId,
        outcome |-> newSignals[k].outcome, at |-> hour ] ]

\* one run of generateSignals: load, emit what is not suppressed, and
\* saveSignals([...newSignals, ...existingSignals])
GenerateSignalsRun ==
  /\ hist.runs < MaxRuns
  /\ \E positions \in RunPositions, gap \in RunGaps :
       LET hour       == hist.hour + gap
           existing   == loadSignals(hist.signalsFile, hour)
           newSignals == stamped(generateSignals(positions, existing), hour)
       IN hist' = [ hist EXCEPT
                      !.runs = @ + 1,
                      !.hour = hour,
                      !.signalsFile = saveSignals(newSignals \o hist.signalsFile),
                      !.emitted = Append(@, newSignals),
                      !.lastEmitted = newSignals ]
  /\ UNCHANGED <<daemonVars, agg, score, sig, follow, rank, wlist>>

\* the large trades checkTraderActivity can return in a run of the watcher
RunTrades ==
  { newTradeOf("w1", r) :
      r \in { d \in DaemonRecords : ~ skipSmall(d) /\ d.timestamp.v # NaN } }

\* the new trades of one run, up to one more than the log keeps
RunBatches == UNION { SeqsOfLen(RunTrades, n) : n \in 0..ActivityCap + 1 }

\* one run of the watcher's runOnce as far as the log goes: loadActivity,
\* allActivity.unshift(trade) for each new trade, saveActivity(allActivity)
WatcherRunOnce ==
  /\ hist.runs < MaxRuns
  /\ pc = "idle"
  /\ \E newTrades \in RunBatches :
       /\ activityFile' = saveActivity(Reverse(newTrades) \o activityFile)
       /\ hist' = [ hist EXCEPT !.runs = @ + 1,
                                !.activityLog = @ \o newTrades ]
  /\ UNCHANGED <<variant, now, stateFile, state, allActivity, pc, idx, cycles,
                 lastCall, proc, agg, score, sig, follow, rank, wlist>>

StoreInit ==
  /\ DaemonIdle
  /\ score = NoScore
  /\ sig = NoSignals
  /\ RestIdle

StoreNext == GenerateSignalsRun \/ WatcherRunOnce

StoreSpec == StoreInit /\ [][StoreNext]_vars

-----------------------------------------------------------------------------
(* The followed traders: copy-trader.js add / remove on following.json *)

\* wallets and names given on the command line; NoName is a missing name
\* argument (name || .. treats undefined and "" alike)
FollowWallets == {"0xab", "0xAB", "0xcd"}
NoName == ""
FollowNames == {NoName, "Theo", "theo"}

\* s.toLowerCase()
toLowerCase(s) ==
  CASE s = "0xAB" -> "0xab"
    [] s = "Theo" -> "theo"
    [] OTHER      -> s

\* DEFAULT_FOLLOW (three traders in the source; one here)
DEFAULT_FOLLOW == << [wallet |-> "0xcd", name |-> "kch123"] >>

\* loadFollowing
loadFollowing(f) == IF ~ f.exists THEN DEFAULT_FOLLOW ELSE f.content

\* saveFollowing
saveFollowing(f, following) ==
  [f EXCEPT !.exists = TRUE, !.content = following]

\* addTrader with the wallets compared as they are written
addTraderCaseSensitive(f, wallet, name) ==
  LET following == loadFollowing(f)
  IN IF \E k \in 1..Len(following) : following[k].wallet = wallet
       THEN f
       ELSE saveFollowing(f,
              Append(following,
                     [ wallet |-> wallet,
                       name |-> IF name = NoName THEN wallet ELSE name ]))

\* addTrader(wallet, name); wallet.slice(0, 10) is the wallet for these widths
addTrader(f, wallet, name) ==
  LET following == loadFollowing(f)
  IN IF \E k \in 1..Len(following) :
          toLowerCase(following[k].wallet) = toLowerCase(wallet)
       THEN f
       ELSE saveFollowing(f,
              Append(following,
                     [ wallet |-> wallet,
                       name |-> IF name = NoName THEN wallet ELSE name ]))

\* removeTrader(walletOrName)
removeTrader(f, walletOrName) ==
  LET following == loadFollowing(f)
      filtered  ==
        SelectSeq(following,
          LAMBDA t : /\ toLowerCase(t.wallet) # toLowerCase(walletOrName)
                     /\ toLowerCase(t.name) # toLowerCase(walletOrName))
  IN IF Len(filtered) = Len(following) THEN f
     ELSE saveFollowing(f, filtered)

\* node copy-trader.js add <wallet> [name]
AddTrader ==
  /\ Len(loadFollowing(follow)) < MaxFollow
  /\ \E wallet \in FollowWallets, name \in FollowNames :
       follow' = [ addTrader(follow, wallet, name) EXCEPT
                     !.cmd = "add", !.arg = wallet,
                     !.before = loadFollowing(follow) ]
  /\ UNCHANGED <<daemonVars, agg, score, sig, hist, rank, wlist>>

\* node copy-trader.js remove <wallet|name>
RemoveTrader ==
  /\ \E x \in FollowWallets \cup (FollowNames \ {NoName}) \cup {"kch123"} :
       follow' = [ removeTrader(follow, x) EXCEPT
                     !.cmd = "remove", !.arg = x,
                     !.before = loadFollowing(follow) ]
  /\ UNCHANGED <<daemonVars, agg, score, sig, hist, rank, wlist>>

FollowInit ==
  /\ DaemonIdle
  /\ score = NoScore
  /\ sig = NoSignals
  /\ RestIdle

FollowNext == AddTrader \/ RemoveTrader

FollowSpec == FollowInit /\ [][FollowNext]_vars

-----------------------------------------------------------------------------
(* The edge-trader ranking: index.js detectEdgeTraders *)

RankWallets == {"w1", "w2", "w3"}

\* leaderboard records: two that pass the filter, one without pnl, one with
\* too little volume
RankRecords ==
  { [proxyWallet |-> w, pnl |-> pv[1], vol |-> pv[2]] :
      w \in RankWallets,
      pv \in { <<100, minVolume>>, <<100, 60000>>,
               <<Undefined, 60000>>, <<100, watchlistMinVolume>> } }

RankBoards == UNION { SeqsOfLen(RankRecords, n) : n \in 0..MaxBoard }

\* what fetchTraderDetails returns for each wallet: its closed positions
RankDetails == [ RankWallets -> { <<>>, << [realizedPnl |-> 300] >> } ]

\* parseInt(args[1]) || 50, scaled down
TopNs == {1, 2}

\* the loop over the first Math.min(candidates.length, topN * 2) candidates
RECURSIVE analyze(_, _, _)
analyze(candidates, n, details) ==
  IF n = 0 THEN <<>>
  ELSE Append(analyze(candidates, n - 1, details),
              [ wallet    |-> candidates[n].proxyWallet,
                edgeScore |-> calculateEdgeScore(
                                candidates[n],
                                details[candidates[n].proxyWallet]).edgeScore,
                pnl       |-> Or(candidates[n].pnl, 0),
                volume    |-> Or(candidates[n].vol, 1) ])

\* the ranking left in the order in which the traders were analyzed
sortByEdgeScoreKeepingOrder(edgeTraders) == edgeTraders

\* edgeTraders.sort((a, b) => b.edgeScore - a.edgeScore), a stable sort
RECURSIVE insertByEdgeScore(_, _)
insertByEdgeScore(t, sorted) ==
  IF sorted = <<>> THEN <<t>>
  ELSE IF Head(sorted).edgeScore - t.edgeScore < 0
    THEN <<t>> \o sorted
    ELSE <<Head(sorted)>> \o insertByEdgeScore(t, Tail(sorted))

RECURSIVE sortByEdgeScoreFrom(_)
sortByEdgeScoreFrom(edgeTraders) ==
  IF edgeTraders = <<>> THEN <<>>
  ELSE insertByEdgeScore(edgeTraders[Len(edgeTraders)],
         sortByEdgeScoreFrom(SubSeq(edgeTraders, 1, Len(edgeTraders) - 1)))

sortByEdgeScore(edgeTraders) == sortByEdgeScoreFrom(edgeTraders)

\* detectEdgeTraders(minVolume, topN): candidates, scored traders, top N
detectEdgeTraders(board, topN, details) ==
  LET candidates  == detectEdgeTradersCandidates(board)
      n           == Min2(Len(candidates), topN * 2)
      edgeTraders == analyze(candidates, n, details)
  IN [ scored  |-> n,
       topEdge |-> SubSeqTo(sortByEdgeScore(edgeTraders), topN) ]

RankEdgeTraders ==
  /\ ~ rank.done
  /\ LET r == detectEdgeTraders(rank.input, rank.topN, rank.details)
     IN rank' = [rank EXCEPT !.impl = "index", !.scored = r.scored,
                             !.out = r.topEdge, !.done = TRUE]
  /\ UNCHANGED <<daemonVars, agg, score, sig, hist, follow, wlist>>

RankInit ==
  /\ DaemonIdle
  /\ score = NoScore
  /\ sig = NoSignals
  /\ hist = NoHist
  /\ follow = NoFollow
  /\ wlist = NoMerge
  /\ \E board \in RankBoards, topN \in TopNs, details \in RankDetails :
       rank = [NoRank EXCEPT !.input = board, !.topN = topN,
                             !.details = details]

RankNext == RankEdgeTraders

RankSpec == RankInit /\ [][RankNext]_vars

-----------------------------------------------------------------------------
(* The daemon loop with failing cycles and the health server: runDaemon is  *)
(* `while (..) { try { await runOnce() } catch { log } await sleep }`, and  *)
(* the HTTP callbacks of part_003 run between the steps of the loop.        *)

\* what the activity API answers in these runs: a failure, nothing, one trade
LoopFetches ==
  { [kind |-> "throws", items |-> <<>>],
    [kind |-> "array",  items |-> <<>>],
    [kind |-> "array",
     items |-> << [ timestamp |-> [type |-> "number", v |-> 1500],
                    usdcSize |-> 0 - 20000, size |-> 50 ] >>] }

CheckTraderQuiet == CheckTraderFrom(LoopFetches)

\* runOnce throws before its loop (loadState / loadActivity / updateWatchlist)
RunOnceThrows ==
  /\ pc = "idle"
  /\ cycles < MaxCycles
  /\ pc' = "caught"
  /\ cycles' = cycles + 1
  /\ proc' = [proc EXCEPT !.running = @ + 1, !.startedAt = now]
  /\ UNCHANGED <<variant, now, stateFile, activityFile, state, allActivity,
                 idx, lastCall, pureVars>>

\* runOnce throws inside its loop or while saving: nothing is written
LoopThrows ==
  /\ pc = "loop"
  /\ pc' = "caught"
  /\ UNCHANGED <<variant, now, stateFile, activityFile, state, allActivity,
                 idx, cycles, lastCall, proc, pureVars>>

\* a loop without the try / catch: the rejection ends runDaemon
Uncaught ==
  /\ pc = "caught"
  /\ pc' = "stopped"
  /\ proc' = [proc EXCEPT !.running = @ - 1, !.errors = @ + 1]
  /\ UNCHANGED <<variant, now, stateFile, activityFile, state, allActivity,
                 idx, cycles, lastCall, pureVars>>

\* catch (err) { console.error(..) }, then on to the sleep
Caught ==
  /\ pc = "caught"
  /\ pc' = "sleeping"
  /\ proc' = [proc EXCEPT !.running = @ - 1, !.errors = @ + 1]
  /\ UNCHANGED <<variant, now, stateFile, activityFile, state, allActivity,
                 idx, cycles, lastCall, pureVars>>

\* GET /health or /: lastCheck, tradesFound and the uptime are read
ServeHealth ==
  /\ variant = "server"
  /\ proc' = [proc EXCEPT !.http = "health"]
  /\ UNCHANGED <<variant, now, stateFile, activityFile, state, allActivity,
                 pc, idx, cycles, lastCall, pureVars>>

\* GET /activity: loadActivity().slice(0, 50) is read
ServeActivity ==
  /\ variant = "server"
  /\ proc' = [proc EXCEPT !.http = "activity"]
  /\ UNCHANGED <<variant, now, stateFile, activityFile, state, allActivity,
                 pc, idx, cycles, lastCall, pureVars>>

\* the steps of runDaemon
LoopStep ==
  \/ RunOnceKeep
  \/ RunOnceUpdate
  \/ RunOnceThrows
  \/ CheckTraderQuiet
  \/ LoopThrows
  \/ RunOnceEnd
  \/ Caught
  \/ Sleep

LoopNext == LoopStep \/ ServeHealth \/ ServeActivity

\* the event loop resumes runDaemon whenever one of its awaits has settled:
\* the timers fire and the fetches resolve or reject
LoopSpec == Init /\ [][LoopNext]_vars /\ WF_vars(LoopStep)

-----------------------------------------------------------------------------
(* The three updateWatchlist: whale-watcher.js (curated file merged with    *)
(* the leaderboard), part_004 (the leaderboard as it is), part_003 (the     *)
(* three leaderboards deduplicated, filtered, ranked by efficiency)         *)

watchCount   == 50   \* CONFIG.watchCount
topTraderCap == 40   \* .slice(0, 40)

\* data/edge-watchlist.json: absent, unreadable, or a list of traders
EdgeFiles ==
  { [kind |-> "absent", traders |-> <<>>],
    [kind |-> "unreadable", traders |-> <<>>] }
    \cup { [kind |-> "traders", traders |-> l] :
             l \in UNION { SeqsOfLen({ [wallet |-> w] : w \in Wallets }, n) :
                             n \in 0..MaxWatch } }

\* leaderboard records: a small and a large efficiency, and a missing pnl
WatchRecords ==
  { [proxyWallet |-> w, pnl |-> p, vol |-> 60000] :
      w \in Wallets, p \in {100, 30000, Undefined} }

WatchBoards == UNION { SeqsOfLen(WatchRecords, n) : n \in 0..MaxBoard }

\* what fetchClosedPositions returns for each wallet
WatchClosed == [ Wallets -> { <<>>, Run(15, 300, 0, 0 - 100) } ]

\* whale-watcher.js: the curated traders, mapped
edgeTradersOf(file) ==
  IF file.kind = "traders"
    THEN [ k \in 1..Len(file.traders) |->
             [wallet |-> file.traders[k].wallet, isEdgeTrader |-> TRUE] ]
    ELSE <<>>

\* whale-watcher.js: for (const t of leaderboardTraders) if (!seen.has(..))
RECURSIVE mergeLeaderboard(_, _, _)
mergeLeaderboard(combined, seen, board) ==
  IF board = <<>> THEN combined
  ELSE IF Head(board).proxyWallet \in seen
    THEN mergeLeaderboard(combined, seen, Tail(board))
    ELSE mergeLeaderboard(
           Append(combined, [ wallet |-> Head(board).proxyWallet,
                              isEdgeTrader |-> FALSE ]),
           seen \cup {Head(board).proxyWallet}, Tail(board))

\* whale-watcher.js updateWatchlist: state.watchlist
watcherWatchlist(file, board) ==
  LET edgeTraders == edgeTradersOf(file)
      seen        == { edgeTraders[k].wallet : k \in 1..Len(edgeTraders) }
  IN mergeLeaderboard(edgeTraders, seen, board)

\* part_004 updateWatchlist: state.watchlist = topByPnl.map(..)
plainWatchlist(board) ==
  [ k \in 1..Len(board) |->
      [wallet |-> board[k].proxyWallet, isEdgeTrader |-> FALSE] ]

\* part_003: efficiency: t.pnl / (t.vol || 1), in thousandths
efficiencyOf(t) == (t.pnl * 1000) \div Or(t.vol, 1)

\* part_003: the test made for each of the top traders
isCopyCandidate(t, closed) ==
  LET wins        == Len(winsOf(closed))
      losses      == Len(lossesOf(closed))
      totalTrades == wins + losses
      winRate     == IF totalTrades > 0 THEN (wins * 1000) \div totalTrades
                     ELSE 0
  IN totalTrades >= 15 /\ winRate >= 700 /\ efficiencyOf(t) >= 300

\* (a, b) => b.efficiency - a.efficiency
byEfficiency(a, b) == b.efficiency - a.efficiency

\* copy candidates first, then by efficiency
byCandidateThenEfficiency(a, b) ==
  IF a.isCopyCandidate /\ ~ b.isCopyCandidate THEN 0 - 10
  ELSE IF ~ a.isCopyCandidate /\ b.isCopyCandidate THEN 10
  ELSE b.efficiency - a.efficiency

\* .sort(..) with the first comparator: a stable sort, cmp(a, b) > 0 puts b
\* before a
RECURSIVE insertByEfficiency(_, _)
insertByEfficiency(t, sorted) ==
  IF sorted = <<>> THEN <<t>>
  ELSE IF byEfficiency(Head(sorted), t) > 0
    THEN <<t>> \o sorted
    ELSE <<Head(sorted)>> \o insertByEfficiency(t, Tail(sorted))

RECURSIVE sortByEfficiency(_)
sortByEfficiency(list) ==
  IF list = <<>> THEN <<>>
  ELSE insertByEfficiency(list[Len(list)],
                          sortByEfficiency(SubSeq(list, 1, Len(list) - 1)))

\* .sort(..) with the second comparator
RECURSIVE insertByCandidate(_, _)
insertByCandidate(t, sorted) ==
  IF sorted = <<>> THEN <<t>>
  ELSE IF byCandidateThenEfficiency(Head(sorted), t) > 0
    THEN <<t>> \o sorted
    ELSE <<Head(sorted)>> \o insertByCandidate(t, Tail(sorted))

RECURSIVE sortByCandidate(_)
sortByCandidate(list) ==
  IF list = <<>> THEN <<>>
  ELSE insertByCandidate(list[Len(list)],
                         sortByCandidate(SubSeq(list, 1, Len(list) - 1)))

\* part_003 updateWatchlist: state.watchlist
serverWatchlist(board, closed) ==
  LET values == updateWatchlistTraders(board)
      top    == SubSeqTo(
                  sortByEfficiency(
                         [ k \in 1..Len(values) |->
                             [ wallet |-> values[k].proxyWallet,
                               efficiency |-> efficiencyOf(values[k]) ] ]),
                  topTraderCap)
      topSet == { top[k].wallet : k \in 1..Len(top) }
      marked == [ k \in 1..Len(values) |->
                    [ wallet |-> values[k].proxyWallet,
                      efficiency |-> efficiencyOf(values[k]),
                      isCopyCandidate |->
                        /\ values[k].proxyWallet \in topSet
                        /\ isCopyCandidate(values[k],
                                           closed[values[k].proxyWallet]) ] ]
  IN SubSeqTo(sortByCandidate(marked), watchCount)

Merged(impl, out) ==
  /\ ~ wlist.done
  /\ wlist' = [wlist EXCEPT !.impl = impl, !.out = out, !.done = TRUE]
  /\ UNCHANGED <<daemonVars, agg, score, sig, hist, follow, rank>>

WatcherUpdateWatchlist ==
  Merged("watcher", watcherWatchlist(wlist.edge, wlist.board))

PlainUpdateWatchlist == Merged("part_004", plainWatchlist(wlist.board))

ServerUpdateWatchlist ==
  Merged("server", serverWatchlist(wlist.board, wlist.closed))

WatchlistInit ==
  /\ DaemonIdle
  /\ score = NoScore
  /\ sig = NoSignals
  /\ hist = NoHist
  /\ follow = NoFollow
  /\ rank = NoRank
  /\ \E file \in EdgeFiles, board \in WatchBoards, closed \in WatchClosed :
       wlist = [NoMerge EXCEPT !.edge = file, !.board = board,
                               !.closed = closed]

WatchlistNext ==
  WatcherUpdateWatchlist \/ PlainUpdateWatchlist \/ ServerUpdateWatchlist

WatchlistSpec == WatchlistInit /\ [][WatchlistNext]_vars

-----------------------------------------------------------------------------
(* Claims *)

PageOf(call) == call.fetch.items

GotPage(call) ==
  call.called /\ call.fetch.kind = "array" /\ Len(call.fetch.items) > 0

\* the wallet's effective watermark for a lastSeen map: the entry, or the seed
EffectiveWatermark(ls, w, clock) ==
  lastSeenOf(variant, [state EXCEPT !.lastSeen = ls], w, clock)

\* C1: checkTraderActivity never returns a trade whose trade time is less than
\* or equal to the watermark in effect for the wallet when the call started.
C1_NoReturnedTradeAtOrBelowWatermark ==
  lastCall.called =>
    \A k \in 1..Len(lastCall.newTrades) :
      ~ JsLE(tradeTime(variant, lastCall.newTrades[k].timestamp),
             lastCall.lastSeen)

\* C1 witness: a call that dropped a large trade at or below the watermark and
\* returned another one.
C1_Witness ==
  /\ GotPage(lastCall)
  /\ lastCall.newTrades # <<>>
  /\ \E k \in 1..Len(PageOf(lastCall)) :
       /\ ~ skipSmall(PageOf(lastCall)[k])
       /\ JsLE(tradeTime(variant, PageOf(lastCall)[k].timestamp),
               lastCall.lastSeen)

\* C2: across checkTraderActivity calls the effective watermark of every
\* wallet never decreases.
C2_WatermarkNeverDecreases ==
  lastCall.called =>
    \A w \in Wallets :
      EffectiveWatermark(lastCall.after, w, lastCall.at)
        >= EffectiveWatermark(lastCall.before, w, lastCall.at)

\* the records the claim C3 says are returned
RECURSIVE NewAndLarge(_, _, _)
NewAndLarge(wallet, page, watermark) ==
  IF page = <<>> THEN <<>>
  ELSE LET t == Head(page)
           rest == NewAndLarge(wallet, Tail(page), watermark)
       IN IF JsLT(watermark, tradeTime(variant, t.timestamp))
               /\ tradeSize(t) >= minTradeSize
            THEN <<newTradeOf(wallet, t)>> \o rest
            ELSE rest

ParsedTimes(page) ==
  { tradeTime(variant, page[k].timestamp) : k \in 1..Len(page) } \ {NaN}

MaxOf(S) == CHOOSE m \in S : \A x \in S : x <= m

\* C3: for a non-empty page the call returns exactly the records with a trade
\* time strictly above the watermark and |size| >= minTradeSize, and sets the
\* wallet's watermark to the greatest trade time of the page.
C3_ReturnsNewLargeAndSetsMax ==
  GotPage(lastCall) =>
    /\ lastCall.newTrades
         = NewAndLarge(lastCall.wallet, PageOf(lastCall), lastCall.lastSeen)
    /\ ParsedTimes(PageOf(lastCall)) # {} =>
         lastCall.after[lastCall.wallet] = MaxOf(ParsedTimes(PageOf(lastCall)))

\* C4: over the polling cycles no activity record of a wallet is alerted
\* (unshifted to the activity log) more than once.
C4_NoRecordAlertedTwice == NoRepeat(allActivity)

\* C5: on the first poll of a wallet (no lastSeen entry) the seed is the time
\* of that first observation, never zero, and no trade dated before it is
\* returned.
C5_FirstPollSeededWithNow ==
  (GotPage(lastCall) /\ lastCall.firstPoll) =>
    /\ lastCall.lastSeen # 0
    /\ lastCall.lastSeen = lastCall.at
    /\ \A k \in 1..Len(lastCall.newTrades) :
         ~ JsLT(tradeTime(variant, lastCall.newTrades[k].timestamp),
                lastCall.at)

Unparseable(t) == tradeTime(variant, t.timestamp) = NaN

RECURSIVE Parseable(_)
Parseable(page) ==
  IF page = <<>> THEN <<>>
  ELSE IF Unparseable(Head(page)) THEN Parseable(Tail(page))
  ELSE <<Head(page)>> \o Parseable(Tail(page))

\* C6: a record whose timestamp cannot be parsed is skipped: the call returns
\* the trades and leaves the watermark it would without that record.
C6_UnparseableRecordSkipped ==
  GotPage(lastCall) =>
    LET clean == [kind |-> "array", items |-> Parseable(PageOf(lastCall))]
        st    == [state EXCEPT !.lastSeen = lastCall.before]
        r     == checkTraderActivity(variant, st, lastCall.wallet, clean,
                                     lastCall.at)
    IN /\ lastCall.newTrades = r.newTrades
       /\ lastCall.after = r.state.lastSeen

FetchFailedOrEmpty(call) ==
  call.called /\ (call.fetch.kind # "array" \/ Len(call.fetch.items) = 0)

\* C7: when the fetch fails or returns an empty page the call returns no trade
\* and leaves lastSeen unchanged for every wallet.
C7_FailedFetchChangesNothing ==
  FetchFailedOrEmpty(lastCall) =>
    /\ lastCall.newTrades = <<>>
    /\ lastCall.after = lastCall.before

\* C7 witness: a failed fetch for a wallet that has a watermark.
C7_Witness ==
  /\ lastCall.called
  /\ lastCall.fetch.kind = "throws"
  /\ lastCall.before[lastCall.wallet] \notin {Undefined, Null}
  /\ state.lastSeen = lastCall.before

\* epoch milliseconds of a numeric timestamp as the specified heuristic reads it
EpochMs(ts) == IF ts.v < SecondsThreshold THEN ts.v * 1000 ELSE ts.v

AllNumeric(page) == \A k \in 1..Len(page) : page[k].timestamp.type = "number"

\* C8: a numeric timestamp below the threshold is multiplied by 1000 before it
\* is compared with the watermark and before it enters the new watermark.
C8_SecondsBecomeMilliseconds ==
  (GotPage(lastCall) /\ AllNumeric(PageOf(lastCall))) =>
    LET page == PageOf(lastCall)
    IN /\ lastCall.after[lastCall.wallet]
            = MaxOf({ EpochMs(page[k].timestamp) : k \in 1..Len(page) })
       /\ \A k \in 1..Len(page) :
            (\E j \in 1..Len(lastCall.newTrades) :
               lastCall.newTrades[j].timestamp = page[k].timestamp)
            => EpochMs(page[k].timestamp) > lastCall.lastSeen

\* the first record of the merged lists that carries the wallet
FirstOccurrence(list, wallet) ==
  list[CHOOSE k \in 1..Len(list) :
         /\ list[k].proxyWallet = wallet
         /\ \A j \in 1..(k - 1) : list[j].proxyWallet # wallet]

WalletsIn(list) == { list[k].proxyWallet : k \in 1..Len(list) }

\* C9: for every wallet the record kept is the one of its first occurrence in
\* the lists merged in order; later occurrences never replace it, even when
\* the first occurrence fails the pnl/volume filter and a later one passes.
C9_FirstOccurrenceKept ==
  (agg.done /\ agg.impl \in {"detectEdgeTraders", "copyCandidates",
                            "updateWatchlist"}) =>
    \A k \in 1..Len(agg.out) :
      agg.out[k] = FirstOccurrence(agg.input, agg.out[k].proxyWallet)

\* C10: the candidate list holds each wallet at most once, and holds a trader
\* exactly when its retained (first) record has pnl > 0 and volume >= the
\* minimum volume, missing pnl/vol counting as 0.
C10_CandidatesAreTheFilteredFirstRecords ==
  (agg.done /\ agg.impl \in {"detectEdgeTraders", "copyCandidates",
                            "edgeTradersApi"}) =>
    /\ \A a, b \in 1..Len(agg.out) :
         a # b => agg.out[a].proxyWallet # agg.out[b].proxyWallet
    /\ \A w \in WalletsIn(agg.input) :
         w \in WalletsIn(agg.out)
           <=> LET r == FirstOccurrence(agg.input, w)
               IN Or(r.pnl, 0) > 0 /\ Or(r.vol, 0) >= minVolume

\* C11: the dedupe-and-filter step applied to its own output (one source list,
\* same minimum volume) gives that output again, in the same order; for
\* detectEdgeTraders (index.js) and the copy-candidates handler (part_000)
C11_AggregationIdempotent ==
  agg.done =>
    /\ agg.impl = "detectEdgeTraders"
         => detectEdgeTradersCandidates(agg.out) = agg.out
    /\ agg.impl = "copyCandidates"
         => copyCandidatesTraders(agg.out) = agg.out

\* two candidates came out of a list from which a record was dropped
C11_Witness ==
  /\ agg.done
  /\ agg.impl \in {"detectEdgeTraders", "copyCandidates"}
  /\ Len(agg.out) = 2
  /\ Len(agg.input) = 3

-----------------------------------------------------------------------------
(* Claims about edge scoring *)

\* the statistics an implementation computed in the scoring that was run
ScoreStats ==
  IF score.impl \in {"index", "part_002", "edgeTradersApi"}
    THEN score.out.locals ELSE score.out

\* the amount of a record is a number (not missing, not null)
HasAmount(p) == p.realizedPnl \notin {Undefined, Null, NaN}

Gains(closed) ==
  { k \in 1..Len(closed) : HasAmount(closed[k]) /\ closed[k].realizedPnl > 0 }

Deficits(closed) ==
  { k \in 1..Len(closed) : HasAmount(closed[k]) /\ closed[k].realizedPnl < 0 }

RECURSIVE SumOver(_, _)
SumOver(closed, ks) ==
  IF ks = {} THEN 0
  ELSE LET k == CHOOSE j \in ks : TRUE
       IN closed[k].realizedPnl + SumOver(closed, ks \ {k})

\* C12: totalTrades is wins + losses, wins + losses is at most the number of
\* records, and a record whose realizedPnl is 0, missing or null is counted in
\* neither (index.js calculateEdgeScore and the top-detailed handler)
C12_TradesAreWinsPlusLosses ==
  (score.done /\ score.impl \in {"index", "topDetailed"}) =>
    /\ ScoreStats.totalTrades = ScoreStats.wins + ScoreStats.losses
    /\ ScoreStats.wins + ScoreStats.losses <= Len(score.closed)
    /\ ScoreStats.wins = Cardinality(Gains(score.closed))
    /\ ScoreStats.losses = Cardinality(Deficits(score.closed))

\* a list with a gain and a record of amount zero, null or missing was scored
C12_Witness ==
  /\ score.done
  /\ score.impl \in {"index", "topDetailed"}
  /\ ScoreStats.wins = 1
  /\ \E k \in 1..Len(score.closed) : ~ HasAmount(score.closed[k])
                                        \/ score.closed[k].realizedPnl = 0

\* C13: calculateEdgeScore (index.js, part_002) returns an edgeScore in
\* [0, 100] and each of the five sub-scores lies in [0, 100]
C13_ScoresWithinZeroToHundred ==
  (score.done /\ score.impl \in {"index", "part_002"}) =>
    /\ score.out.edgeScore >= 0
    /\ score.out.edgeScore <= 100 * 100000
    /\ \A c \in { ScoreStats.efficiency, ScoreStats.winRate,
                   ScoreStats.profitFactorScore, ScoreStats.consistency,
                   ScoreStats.size } : c >= 0 /\ c <= 100000

\* totalWins / totalLosses if totalLosses > 0, else 10 if totalWins > 0, else 1
ThreeWayProfitFactor(closed) ==
  LET totalWins   == SumOver(closed, Gains(closed))
      totalLosses == Abs(SumOver(closed, Deficits(closed)))
  IN IF totalLosses > 0 THEN (totalWins * 1000) \div totalLosses
     ELSE IF totalWins > 0 THEN 10000 ELSE 1000

\* C14: every caller that computes profitFactor (the three calculateEdgeScore
\* copies and the copy-candidates handler) gets the value of the three-way rule
C14_ProfitFactorThreeWay ==
  (score.done /\ score.impl \in {"index", "part_002", "edgeTradersApi",
                                  "copyCandidates"}) =>
    ScoreStats.profitFactor = ThreeWayProfitFactor(score.closed)

\* the number of trades of a list: its gains and its losses
TradeCount(closed) == Cardinality(Gains(closed)) + Cardinality(Deficits(closed))

\* C15: the consistency sub-score of calculateEdgeScore is 100 when
\* totalTrades >= 20 and (totalTrades / 20) * 100 otherwise
C15_ConsistencyAsSpecified ==
  (score.done /\ score.impl \in {"index", "part_002", "edgeTradersApi"}) =>
    ScoreStats.consistency =
      IF TradeCount(score.closed) >= 20 THEN 100000
      ELSE (TradeCount(score.closed) * 100000) \div 20

\* a history of exactly twenty trades was scored
C15_Witness ==
  /\ score.done
  /\ score.impl \in {"index", "edgeTradersApi"}
  /\ TradeCount(score.closed) = 20

-----------------------------------------------------------------------------
(* Claims about signal aggregation *)

SamePair(p, q) == p.conditionId = q.conditionId /\ p.outcome = q.outcome

RECURSIVE GroupedCount(_)
GroupedCount(grouped) ==
  IF grouped = <<>> THEN 0
  ELSE Len(Head(grouped).positions) + GroupedCount(Tail(grouped))

\* C16: every open position is placed in exactly one group, and two positions
\* are in the same group if and only if they have the same conditionId and the
\* same outcome
C16_GroupedByConditionAndOutcome ==
  sig.done =>
    /\ GroupedCount(sig.grouped) = Len(sig.positions)
    /\ \A g, h \in 1..Len(sig.grouped) :
         \A a \in 1..Len(sig.grouped[g].positions),
            b \in 1..Len(sig.grouped[h].positions) :
           (g = h) <=> SamePair(sig.grouped[g].positions[a],
                                sig.grouped[h].positions[b])

\* the positions of the group a signal was made from
GroupOf(s) ==
  sig.grouped[CHOOSE g \in 1..Len(sig.grouped) : sig.grouped[g].key = s.key]
    .positions

\* LONG if any contributing position has raw size > 0, SHORT otherwise
SideOfAny(positions) ==
  IF \E k \in 1..Len(positions) :
       positions[k].size \notin {Undefined, Null, NaN} /\ positions[k].size > 0
    THEN "LONG" ELSE "SHORT"

\* C17: the side of a signal is LONG if any contributing position of its group
\* has raw size > 0 and SHORT otherwise, whatever the order of the positions
C17_SideFromAnyPosition ==
  sig.done =>
    \A k \in 1..Len(sig.out) :
      sig.out[k].side = SideOfAny(GroupOf(sig.out[k]))

\* the specified tier: high from 3 traders, medium from 2 traders or above
\* 50000, low above 10000, otherwise 0 (dropped)
SpecifiedTier(traderCount, totalSize) ==
  IF traderCount >= 3 THEN confidenceHigh
  ELSE IF traderCount >= 2 \/ totalSize > 50000 THEN confidenceMedium
  ELSE IF totalSize > 10000 THEN confidenceLow
  ELSE 0

RECURSIVE SumOfSizes(_)
SumOfSizes(traders) ==
  IF traders = <<>> THEN 0
  ELSE (IF Head(traders).size \in {Undefined, Null, NaN, 0} THEN 0
        ELSE Abs(Head(traders).size)) + SumOfSizes(Tail(traders))

\* the positions gathered that carry the key of signal s, as its traders list
Contributors(s) ==
  LET sel == SelectSeq(sig.positions, LAMBDA p : keyOf(p) = s.key)
  IN [ k \in 1..Len(sel) |->
         [ wallet |-> sel[k].traderWallet,
           size |-> IF sel[k].currentValue \in {Undefined, Null, NaN, 0}
                      THEN sel[k].size ELSE sel[k].currentValue ] ]

Verdicts(signals) ==
  { <<signals[k].key, signals[k].confidence>> : k \in 1..Len(signals) }

\* C19: the signal endpoint and the daemon generator agree, for the same
\* positions and nothing signaled before, on which groups give a signal and on
\* the confidence of each
C19_OneTierTable ==
  (sig.done /\ sig.existing = <<>>) =>
    Verdicts(sig.out) =
      Verdicts(IF sig.impl = "generateSignals"
                 THEN signalsHandler(sig.positions)
                 ELSE generateSignals(sig.positions, <<>>))

\* C20: the signals returned by one run are ordered by totalSize descending,
\* for generateSignals and for the signals endpoint
C20_SortedByTotalSize ==
  sig.done =>
    \A k \in 1..(Len(sig.out) - 1) :
      sig.out[k].totalSize >= sig.out[k + 1].totalSize

-----------------------------------------------------------------------------
(* Claims about runs over time *)

\* C21: across the runs of generateSignals, no signal is emitted for a
\* (conditionId, outcome) for which a signal was emitted less than 24 hours
\* earlier, however many other signals were emitted in between
C21_NoSignalAgainWithin24Hours ==
  \A i, j \in 1..Len(hist.emitted) :
    \A a \in 1..Len(hist.emitted[i]), b \in 1..Len(hist.emitted[j]) :
      (i < j /\ SamePair(hist.emitted[i][a], hist.emitted[j][b]))
        => hist.emitted[j][b].at - hist.emitted[i][a].at >= DayHours

\* the signals of all runs, the latest run first
RECURSIVE NewestFirst(_)
NewestFirst(batches) ==
  IF batches = <<>> THEN <<>>
  ELSE batches[Len(batches)]
         \o NewestFirst(SubSeq(batches, 1, Len(batches) - 1))

\* C23: the signal store holds at most SignalCap signals and the activity log
\* at most ActivityCap trades (500 and 1000 in the source), and each is the
\* front of everything ever stored, newest first: an entry the trim dropped
\* was not inserted later than one that is kept
C23_StoresTrimmedNewestFirst ==
  /\ Len(hist.signalsFile) <= SignalCap
  /\ hist.signalsFile = SubSeqTo(NewestFirst(hist.emitted), SignalCap)
  /\ (pc = "idle" /\ cycles = 0) =>
       /\ Len(activityFile) <= ActivityCap
       /\ activityFile = SubSeqTo(Reverse(hist.activityLog), ActivityCap)

\* both stores have dropped an entry
C23_Witness ==
  /\ Len(NewestFirst(hist.emitted)) > SignalCap
  /\ Len(hist.signalsFile) = SignalCap
  /\ Len(hist.activityLog) > ActivityCap
  /\ Len(activityFile) = ActivityCap

-----------------------------------------------------------------------------
(* Claims about the followed traders *)

NoCaseDuplicate(following) ==
  \A a, b \in 1..Len(following) :
    a # b => toLowerCase(following[a].wallet) # toLowerCase(following[b].wallet)

Matches(t, x) ==
  toLowerCase(t.wallet) = toLowerCase(x) \/ toLowerCase(t.name) = toLowerCase(x)

\* C22: after any sequence of addTrader and removeTrader the list never holds
\* two entries whose wallets are equal ignoring case; addTrader of a followed
\* wallet and removeTrader of an unknown wallet or name leave the stored list
\* unchanged; removeTrader(x) removes every entry whose wallet or name equals
\* x ignoring case
C22_FollowingHasNoCaseDuplicates ==
  LET stored == loadFollowing(follow)
  IN /\ NoCaseDuplicate(stored)
     /\ (follow.cmd = "add"
           /\ \E k \in 1..Len(follow.before) :
                toLowerCase(follow.before[k].wallet) = toLowerCase(follow.arg))
          => stored = follow.before
     /\ (follow.cmd = "remove"
           /\ \A k \in 1..Len(follow.before) :
                ~ Matches(follow.before[k], follow.arg))
          => stored = follow.before
     /\ follow.cmd = "remove"
          => stored = SelectSeq(follow.before,
                                LAMBDA t : ~ Matches(t, follow.arg))

\* a wallet followed as "0xab" was added again as "0xAB"
C22_Witness ==
  /\ follow.cmd = "add"
  /\ follow.arg = "0xAB"
  /\ \E k \in 1..Len(follow.before) : follow.before[k].wallet = "0xab"
  /\ loadFollowing(follow) = follow.before

-----------------------------------------------------------------------------
(* Claims about the edge-trader ranking *)

\* C24: the ranking of detectEdgeTraders is sorted by edgeScore descending,
\* has at most topN entries and no wallet twice, every entry was scored from
\* a candidate that passed the pnl > 0 and minimum-volume filter, and at most
\* min(candidates, 2 * topN) candidates are scored
C24_RankingSortedCappedDistinct ==
  rank.done =>
    LET out    == rank.out
        passed == { rank.input[k] : k \in { j \in 1..Len(rank.input) :
                      /\ Or(rank.input[j].pnl, 0) > 0
                      /\ Or(rank.input[j].vol, 0) >= minVolume } }
    IN /\ \A k \in 1..(Len(out) - 1) : out[k].edgeScore >= out[k + 1].edgeScore
       /\ Len(out) <= rank.topN
       /\ \A a, b \in 1..Len(out) : a # b => out[a].wallet # out[b].wallet
       /\ \A k \in 1..Len(out) :
            \E t \in passed :
              /\ t.proxyWallet = out[k].wallet
              /\ out[k].edgeScore =
                   calculateEdgeScore(t, rank.details[t.proxyWallet]).edgeScore
       /\ rank.scored <= Len(detectEdgeTradersCandidates(rank.input))
       /\ rank.scored <= 2 * rank.topN

\* three candidates with topN = 1: two are scored, the later one scores
\* higher and is the one returned
C24_Witness ==
  /\ rank.done
  /\ rank.topN = 1
  /\ Len(detectEdgeTradersCandidates(rank.input)) = 3
  /\ rank.scored = 2
  /\ Len(rank.out) = 1
  /\ rank.out[1].wallet = detectEdgeTradersCandidates(rank.input)[2].proxyWallet

-----------------------------------------------------------------------------
(* Claims about the daemon loop *)

\* C25: a polling cycle that throws never stops the daemon: the error is
\* caught and another cycle is started after the poll interval (for every
\* cycle short of the last one explored)
C25_FailedCycleIsFollowedByAnother ==
  \A n \in 1..(MaxCycles - 1) :
    (pc = "caught" /\ cycles = n) ~> (cycles = n + 1 /\ proc.errors > 0)

\* a cycle is running after the error of an earlier one was caught
C25_Witness ==
  /\ proc.errors > 0
  /\ pc = "loop"
  /\ cycles = 2
  /\ now >= proc.startedAt
  /\ proc.startedAt = ClockStart + PollTick

\* C30: polling cycles never overlap: a runOnce starts only when the one
\* before has finished and a poll interval has passed since, and the watch
\* state and the two files are written only by the steps of the one running
\* cycle, never by the HTTP requests served meanwhile
C30_CyclesNeverOverlap ==
  [][ /\ proc'.running <= 1
      /\ cycles' # cycles =>
            /\ proc.running = 0
            /\ cycles = 0 \/ now >= proc.startedAt + PollTick
      /\ (stateFile' # stateFile \/ activityFile' # activityFile
            \/ state' # state \/ allActivity' # allActivity) =>
            /\ proc'.http = proc.http
            /\ proc.running = 1 \/ proc'.running = 1
      /\ proc'.http # proc.http =>
            UNCHANGED <<stateFile, activityFile, state, allActivity, pc, idx,
                        cycles, now>> ]_vars

\* the second cycle of the server is running and /activity was served
C30_Witness ==
  /\ variant = "server"
  /\ cycles = 2
  /\ pc = "loop"
  /\ proc.running = 1
  /\ proc.http = "activity"
  /\ activityFile # <<>>

-----------------------------------------------------------------------------
(* Claims about polling the same feed again *)

\* checkTraderActivity called once more with the page of the last call
CalledAgain ==
  checkTraderActivity(variant, state, lastCall.wallet, lastCall.fetch, now)

\* C26: polling is idempotent on an unchanged feed: a second call of
\* checkTraderActivity for the wallet with the same activity page returns no
\* trades and leaves the watermark unchanged
C26_SecondCallReturnsNothing ==
  lastCall.called =>
    /\ CalledAgain.newTrades = <<>>
    /\ CalledAgain.state.lastSeen = state.lastSeen

\* a record of the page of the last call that the claim says must have been
\* alerted: large enough, with a time that parses and lies after the first
\* observation of the wallet
Qualifies(trade) ==
  /\ tradeSize(trade) >= minTradeSize
  /\ trade.timestamp.v # NaN
  /\ proc.firstPolled[lastCall.wallet] # Undefined
  /\ EpochMs(trade.timestamp) > proc.firstPolled[lastCall.wallet]

Alerted(trade) ==
  \E j \in 1..Len(proc.alertLog) :
    proc.alertLog[j] = newTradeOf(lastCall.wallet, trade)

\* C27: no qualifying trade is lost: every trade of a watched wallet with
\* size >= minTradeSize, made after the wallet's first observation, that
\* appears in a fetched page has been alerted by that cycle or an earlier
\* one, also when its timestamp equals that of the latest record seen before
C27_NoQualifyingTradeLost ==
  (lastCall.called /\ lastCall.fetch.kind = "array") =>
    \A k \in 1..Len(lastCall.fetch.items) :
      Qualifies(lastCall.fetch.items[k]) => Alerted(lastCall.fetch.items[k])

-----------------------------------------------------------------------------
(* Claims about the two ways of aggregating *)

RecordsIn(list) == { list[k] : k \in 1..Len(list) }

\* C28: deduplicating by wallet first and filtering afterwards
\* (detectEdgeTraders) yields the same wallets, with the same record for
\* each, as filtering while deduplicating (copy-candidates handler,
\* updateWatchlist of the whale server) on the same lists with the same
\* volume threshold
C28_DedupeThenFilterEqualsFilterWhileDedupe ==
  /\ (agg.done /\ agg.impl = "copyCandidates") =>
        RecordsIn(agg.out)
          = RecordsIn(keep(dedupe(agg.input, <<>>), copyMinVolume))
  /\ (agg.done /\ agg.impl = "updateWatchlist") =>
        RecordsIn(agg.out)
          = RecordsIn(keep(dedupe(agg.input, <<>>), watchlistMinVolume))

-----------------------------------------------------------------------------
(* Claims about the watchlist *)

\* C29: after every updateWatchlist the watchlist has no two entries with the
\* same wallet, whatever duplicates the curated file or the leaderboard
\* hold; curated edge traders precede leaderboard traders, and a wallet
\* present in both keeps its curated entry
C29_WatchlistHasEachWalletOnce ==
  wlist.done =>
    LET out == wlist.out
    IN /\ \A a, b \in 1..Len(out) : a # b => out[a].wallet # out[b].wallet
       /\ wlist.impl = "watcher" =>
            /\ \A a, b \in 1..Len(out) :
                 (out[a].isEdgeTrader /\ ~ out[b].isEdgeTrader) => a < b
            /\ \A k \in 1..Len(out) :
                 (\E j \in 1..Len(edgeTradersOf(wlist.edge)) :
                    edgeTradersOf(wlist.edge)[j].wallet = out[k].wallet)
                   => out[k].isEdgeTrader

====
